---- MODULE Spec2Model ----
(***************************************************************************)
(* Model of the LogHub backend (src/index.ts): the bulk ingestion handler  *)
(* POST /api/logs/bulk, the query handler GET /api/logs/:projectId, the    *)
(* cascading delete DELETE /api/projects/:id and the record store (the Log *)
(* collection of src/models/log.ts) they share.                            *)
(*                                                                         *)
(* A JavaScript handler runs without interruption between two awaits, so   *)
(* each action below is one such synchronous stretch of a handler, or one  *)
(* step of the store settling an operation the handler is waiting for.     *)
(***************************************************************************)
EXTENDS Integers, Sequences, FiniteSets, Bags, TLC

VARIABLES
    projects,          \* ids of the documents of the Project collection
    store,             \* the Log collection: a bag of persisted documents
    storeCalls,        \* the insertMany calls the store has received, in order
    writes,            \* how many writes have changed the Log collection
    bulkPc,            \* position of the bulk handler
    bulkBody,          \* req.body of the bulk request
    i,                 \* index.ts:155, the outer loop's index
    parallelPromises,  \* index.ts:156, the promises of the current wave
    insertedCount,     \* index.ts:151
    bulkRes,           \* the response sent by the bulk handler
    queryPc,           \* position of the query handler
    queryReq,          \* the query request: req.params and req.query
    heldDeleteStatus,  \* status of the delete response the client held
                       \* when it sent the query, 0 when it held none
    totalCount,        \* index.ts:110
    countedAt,         \* the value of writes when the count was answered
    queryRes,          \* the response sent by the query handler
    deletePc,          \* position of the delete handler
    deleteReq,         \* index.ts:71, req.params.id of the delete request
    logLeg,            \* index.ts:76, the promise of Log.deleteMany
    projectLeg,        \* index.ts:77, the promise of Project.findByIdAndDelete
    deleteRes          \* the response sent by the delete handler

bulkVars == <<bulkPc, bulkBody, i, parallelPromises,
              insertedCount, bulkRes>>
queryVars == <<queryPc, queryReq, heldDeleteStatus, totalCount, countedAt,
               queryRes>>
deleteVars == <<deletePc, deleteReq, logLeg, projectLeg, deleteRes>>
vars == <<projects, store, storeCalls, writes, bulkVars, queryVars, deleteVars>>

----------------------------------------------------------------------------
(* Values *)

Absent == "absent"          \* a projectId that was not supplied (undefined)
NONE == [none |-> TRUE]     \* no response sent yet, no request received yet

BATCH_SIZE == 5000
PARALLEL_BATCHES == 4

P1 == "p1"
P2 == "p2"
ProjectIds == {P1, P2}

Min(a, b) == IF a < b THEN a ELSE b

\* The entries a client sends. Strings are sequences of characters; the
\* characters of a timestamp are digits, written as numbers.
Entry(ts, lvl, msg) ==
    [timestamp |-> ts, level |-> lvl, component |-> <<"c">>, message |-> msg,
     raw |-> <<>>, streamId |-> <<"s">>]

EntryA == Entry(<<2>>, <<"E">>, <<"a", "b">>)
EntryB == Entry(<<1, 0>>, <<"W">>, <<"B">>)
EntryC == Entry(<<2>>, <<"I">>, <<"z">>)
\* an entry that arrives carrying a projectId of its own
EntryD == [Entry(<<3>>, <<"E">>, <<"a">>) EXCEPT !.raw = <<"b">>] @@ [projectId |-> P2]

EntryPool == <<EntryA, EntryB, EntryC, EntryD>>

\* A large payload of n entries, cycling through the pool.
Payload(n) == [k \in 1..n |-> EntryPool[((k - 1) % Len(EntryPool)) + 1]]

\* The lengths of the large payloads: one to five batches.
BulkSizes == {1, 4999, 5000, 5001, 12000, 20000, 20001}
Payloads == [n \in BulkSizes |-> Payload(n)]

----------------------------------------------------------------------------
(* POST /api/logs/bulk *)

\* JavaScript values of a request field: undefined, a string, an array.
\* A large array is held by the name of its payload and not by its items.
Undefined == [type |-> "undefined"]
Str(chars) == [type |-> "string", chars |-> chars]
Arr(items) == [type |-> "array", items |-> items]
Large(n) == [type |-> "array", payload |-> n]

\* The items of an array value.
Items(v) == IF "payload" \in DOMAIN v THEN Payloads[v.payload] ELSE v.items

\* JavaScript truthiness: undefined and the empty string are falsy; every
\* array (the empty one too) and every non-empty string is truthy.
Truthy(v) == CASE v.type = "undefined" -> FALSE
               [] v.type = "string" -> Len(v.chars) > 0
               [] v.type = "array" -> TRUE

IsArray(v) == v.type = "array"

\* LogsRejected without the test for an empty array.
LogsRejectedNonArray(logs) == \/ ~Truthy(logs)
                              \/ ~IsArray(logs)

\* index.ts:136: !logs || !Array.isArray(logs) || logs.length === 0
LogsRejected(logs) == \/ ~Truthy(logs)
                      \/ ~IsArray(logs)
                      \/ Len(Items(logs)) = 0

\* Stamp as { projectId, ...l }: the entry's own projectId wins.
StampUnder(l, projectId) ==
    [f \in (DOMAIN l) \cup {"projectId"} |->
        IF f \in DOMAIN l THEN l[f] ELSE projectId]

\* index.ts:143-146: { ...l, projectId }
Stamp(l, projectId) ==
    [f \in (DOMAIN l) \cup {"projectId"} |->
        IF f = "projectId" THEN projectId ELSE l[f]]

MapStamp(logs, projectId) == [k \in 1..Len(logs) |-> Stamp(logs[k], projectId)]

\* slice with its end included.
SliceInclusive(s, start, end) == SubSeq(s, start + 1, Min(end + 1, Len(s)))

\* Array.prototype.slice(start, end) on a sequence, 0-based, end exclusive.
Slice(s, start, end) == SubSeq(s, start + 1, Min(end, Len(s)))

\* The stamped payloads, computed once for every project id.
StampedPayloads ==
    [pid \in ProjectIds \cup {Absent} |->
        [n \in BulkSizes |-> MapStamp(Payloads[n], pid)]]

\* index.ts:143-146: const logsToInsert, a function of the request body.
LogsToInsert(body) ==
    IF "payload" \in DOMAIN body.logs
    THEN StampedPayloads[body.projectId][body.logs.payload]
    ELSE MapStamp(body.logs.items, body.projectId)
logsToInsert == LogsToInsert(bulkBody)

\* index.ts:152
CeilDiv(n, d) == (n + d - 1) \div d
totalBatches == CeilDiv(Len(logsToInsert), BATCH_SIZE)

\* WaveStarts with the inner loop's break testing startIdx > length.
WaveStartsPastEnd(iv, lti) ==
    {iv + j * BATCH_SIZE : j \in {jj \in 0..(PARALLEL_BATCHES - 1) :
                                    iv + jj * BATCH_SIZE <= Len(lti)}}

\* WaveStarts with the inner loop running while j <= PARALLEL_BATCHES.
WaveStartsOneMore(iv, lti) ==
    {iv + j * BATCH_SIZE : j \in {jj \in 0..PARALLEL_BATCHES :
                                    iv + jj * BATCH_SIZE < Len(lti)}}

\* index.ts:155-163: the batches of the wave that starts at index iv. The
\* inner loop stops at the first j whose startIdx is past the end.
WaveStarts(iv, lti) ==
    {iv + j * BATCH_SIZE : j \in {jj \in 0..(PARALLEL_BATCHES - 1) :
                                    iv + jj * BATCH_SIZE < Len(lti)}}

\* index.ts:162
Batch(lti, startIdx) == Slice(lti, startIdx, startIdx + BATCH_SIZE)

\* index.ts:163
BatchNum(startIdx) == (startIdx \div BATCH_SIZE) + 1

\* index.ts:156-176: one pending promise per batch of the wave, in the
\* order the inner loop pushes them; call is the position of the batch's
\* insertMany call in storeCalls.
DispatchWave(iv, lti, ncalls) ==
    [k \in 1..Cardinality(WaveStarts(iv, lti)) |->
        [startIdx |-> iv + (k - 1) * BATCH_SIZE,
         call |-> ncalls + k,
         state |-> "pending",
         value |-> 0]]

\* What the store records of a wave's insertMany calls.
WaveCalls(iv, lti) ==
    [k \in 1..Cardinality(WaveStarts(iv, lti)) |->
        [startIdx |-> iv + (k - 1) * BATCH_SIZE,
         size |-> Len(Batch(lti, iv + (k - 1) * BATCH_SIZE)),
         outcome |-> "pending",
         nInserted |-> 0]]

\* models/log.ts:19: projectId is required; a document without one fails
\* validation and is never written.
ValidDoc(d) == d.projectId # Absent

\* The documents a store rejects from a batch that partially fails, as a
\* choice of positions; with { ordered: false } (index.ts:166) the rest of
\* the batch is still written. The model lets the store reject the last
\* document of the batch.
Rejections(batch, valid) ==
    {r \in {{Len(batch)}} : r \subseteq valid /\ valid \ r # {}}

\* Log.insertMany(batch, { ordered: false }): the possible results, as the
\* positions of the batch that are written and whether the promise fulfils.
\*   ok       every document written
\*   fail     the write fails outright (the store is unavailable)
\*   partial  the store rejects some documents and writes the others
\*   invalid  some documents fail validation: they are dropped, and whether
\*            the call then rejects depends on the library's version
InsertManyOutcomes(batch) ==
    LET all == 1..Len(batch)
        valid == {p \in all : ValidDoc(batch[p])}
    IN  {[kind |-> "fail", inserted |-> {}, fulfilled |-> FALSE]}
        \cup (IF valid = all
              THEN {[kind |-> "ok", inserted |-> all, fulfilled |-> TRUE]}
              ELSE {[kind |-> "invalid", inserted |-> valid, fulfilled |-> f] :
                        f \in BOOLEAN})
        \cup {[kind |-> "partial", inserted |-> valid \ r, fulfilled |-> FALSE] :
                  r \in Rejections(batch, valid)}

\* The documents of a batch at the given positions, as a bag.
DocsAt(batch, positions) ==
    LET docs == {batch[p] : p \in positions}
    IN  [d \in docs |-> Cardinality({p \in positions : batch[p] = d})]

\* ThenCatch with a catch that still counts the batch.
ThenCatchCounted(fulfilled, batch) ==
    [state |-> "fulfilled", value |-> Len(batch)]

\* ThenCatch without the catch: a failed write leaves the promise rejected.
ThenOnly(fulfilled, batch) ==
    [state |-> IF fulfilled THEN "fulfilled" ELSE "rejected",
     value |-> IF fulfilled THEN Len(batch) ELSE 0]

\* index.ts:167-174: .then(() => batch.length).catch(() => 0)
ThenCatch(fulfilled, batch) ==
    [state |-> "fulfilled", value |-> IF fulfilled THEN Len(batch) ELSE 0]

\* index.ts:179: results.reduce((sum, count) => sum + count, 0)
RECURSIVE Reduce(_)
Reduce(results) ==
    IF results = <<>> THEN 0
    ELSE results[1] + Reduce(Tail(results))

Results(promises) == [k \in 1..Len(promises) |-> promises[k].value]

\* AllFulfilled for a join that resumes on the first fulfilled promise.
SomeFulfilled(promises) ==
    \E k \in 1..Len(promises) : promises[k].state = "fulfilled"

\* index.ts:178: Promise.all(parallelPromises) fulfils once every promise of
\* the wave has fulfilled, and rejects as soon as one of them rejects.
AllFulfilled(promises) ==
    \A k \in 1..Len(promises) : promises[k].state = "fulfilled"
AnyRejected(promises) ==
    \E k \in 1..Len(promises) : promises[k].state = "rejected"

\* index.ts:132-176: the request arrives; the handler validates it, stamps
\* the entries and dispatches the first wave before its first await.
BulkStart(body) ==
    /\ bulkPc = "idle"
    /\ bulkBody' = body
    /\ IF LogsRejected(body.logs)
       THEN /\ bulkRes' = [status |-> 400, count |-> 0]
            /\ bulkPc' = "done"
            /\ UNCHANGED <<i, parallelPromises, insertedCount, storeCalls>>
       ELSE LET lti == LogsToInsert(body)
            IN  /\ insertedCount' = 0
                /\ i' = 0
                /\ parallelPromises' = DispatchWave(0, lti, Len(storeCalls))
                /\ storeCalls' = storeCalls \o WaveCalls(0, lti)
                /\ bulkPc' = "await"
                /\ UNCHANGED bulkRes
    /\ UNCHANGED <<projects, store, writes, queryVars, deleteVars>>

\* index.ts:166-174: the store settles one pending insertMany of the wave
\* and the promise chain turns the result into the batch's count.
BatchSettle(k) ==
    /\ bulkPc = "await"
    /\ k \in 1..Len(parallelPromises)
    /\ parallelPromises[k].state = "pending"
    /\ LET pr == parallelPromises[k]
           batch == Batch(logsToInsert, pr.startIdx)
       IN  \E o \in InsertManyOutcomes(batch) :
               /\ store' = store (+) DocsAt(batch, o.inserted)
               /\ writes' = IF o.inserted = {} THEN writes ELSE writes + 1
               /\ storeCalls' = [storeCalls EXCEPT
                                    ![pr.call].outcome = o.kind,
                                    ![pr.call].nInserted = Cardinality(o.inserted)]
               /\ parallelPromises' = [parallelPromises EXCEPT ![k] =
                                          ThenCatch(o.fulfilled, batch) @@ pr]
    /\ UNCHANGED <<projects, bulkPc, bulkBody, i, insertedCount,
                   bulkRes, queryVars, deleteVars>>

\* index.ts:178-187: Promise.all settles; the handler adds the wave's
\* counts and either dispatches the next wave or responds. A rejected
\* promise makes Promise.all reject at once, and the handler's catch
\* answers 500.
BulkResume ==
    /\ bulkPc = "await"
    /\ IF AnyRejected(parallelPromises)
       THEN /\ bulkRes' = [status |-> 500, count |-> 0]
            /\ bulkPc' = "done"
            /\ UNCHANGED <<i, insertedCount, parallelPromises, storeCalls>>
       ELSE /\ AllFulfilled(parallelPromises)
            /\ LET count == insertedCount + Reduce(Results(parallelPromises))
                   next == i + BATCH_SIZE * PARALLEL_BATCHES
               IN  /\ insertedCount' = count
                   /\ i' = next
                   /\ IF next < Len(logsToInsert)
                      THEN /\ parallelPromises' =
                                  DispatchWave(next, logsToInsert, Len(storeCalls))
                           /\ storeCalls' = storeCalls \o WaveCalls(next, logsToInsert)
                           /\ UNCHANGED <<bulkPc, bulkRes>>
                      ELSE /\ bulkRes' = [status |-> 201, count |-> count]
                           /\ bulkPc' = "done"
                           /\ UNCHANGED <<parallelPromises, storeCalls>>
    /\ UNCHANGED <<projects, store, writes, bulkBody, queryVars, deleteVars>>

----------------------------------------------------------------------------
(* GET /api/logs/:projectId *)

\* String.prototype.split(','): the pieces between the commas.
RECURSIVE Split(_)
Split(chars) ==
    IF \A k \in 1..Len(chars) : chars[k] # ","
    THEN <<chars>>
    ELSE LET c == CHOOSE k \in 1..Len(chars) :
                      chars[k] = "," /\ \A m \in 1..(k - 1) : chars[m] # ","
         IN  <<SubSeq(chars, 1, c - 1)>> \o Split(SubSeq(chars, c + 1, Len(chars)))

\* parseInt of a string of decimal digits.
RECURSIVE ParseInt(_)
ParseInt(digits) ==
    IF Len(digits) = 0 THEN 0
    ELSE 10 * ParseInt(SubSeq(digits, 1, Len(digits) - 1)) + digits[Len(digits)]

\* The store's order on strings (timestamps): lexical, digit by digit.
RECURSIVE LexLeq(_, _)
LexLeq(a, b) ==
    IF a = <<>> THEN TRUE
    ELSE IF b = <<>> THEN FALSE
    ELSE IF a[1] # b[1] THEN a[1] < b[1]
    ELSE LexLeq(Tail(a), Tail(b))

\* $options: 'i'
Lower(c) == CASE c = "A" -> "a"
              [] c = "B" -> "b"
              [] OTHER -> c
LowerAll(chars) == [k \in 1..Len(chars) |-> Lower(chars[k])]

\* $regex with a pattern of plain letters: the pattern occurs in the field.
RegexMatch(field, pattern) ==
    \E k \in 1..(Len(field) - Len(pattern) + 1) :
        SubSeq(LowerAll(field), k, k + Len(pattern) - 1) = LowerAll(pattern)

\* index.ts:93-107: the filter built from the request.
Query(req) ==
    [projectId |-> req.projectId,
     level |-> IF Truthy(req.level) THEN [in |-> Split(req.level.chars)]
               ELSE Undefined,
     timestamp |-> IF Truthy(req.start) \/ Truthy(req.end)
                   THEN [gte |-> IF Truthy(req.start) THEN req.start ELSE Undefined,
                         lte |-> IF Truthy(req.end) THEN req.end ELSE Undefined]
                   ELSE Undefined,
     or |-> IF Truthy(req.search) THEN [regex |-> req.search.chars]
            ELSE Undefined]

\* Matches with the upper bound of the time window left out.
MatchesNoUpper(d, q) ==
    /\ d.projectId = q.projectId
    /\ q.level # Undefined =>
           \E k \in 1..Len(q.level.in) : d.level = q.level.in[k]
    /\ q.timestamp # Undefined =>
           (q.timestamp.gte # Undefined =>
                LexLeq(q.timestamp.gte.chars, d.timestamp))
    /\ q.or # Undefined =>
           \/ RegexMatch(d.message, q.or.regex)
           \/ RegexMatch(d.raw, q.or.regex)
           \/ RegexMatch(d.component, q.or.regex)

\* The store's evaluation of a filter on one document.
Matches(d, q) ==
    /\ d.projectId = q.projectId
    /\ q.level # Undefined =>
           \E k \in 1..Len(q.level.in) : d.level = q.level.in[k]
    /\ q.timestamp # Undefined =>
           /\ q.timestamp.gte # Undefined => LexLeq(q.timestamp.gte.chars, d.timestamp)
           /\ q.timestamp.lte # Undefined => LexLeq(d.timestamp, q.timestamp.lte.chars)
    /\ q.or # Undefined =>
           \/ RegexMatch(d.message, q.or.regex)
           \/ RegexMatch(d.raw, q.or.regex)
           \/ RegexMatch(d.component, q.or.regex)

\* The documents of the collection that match, with their multiplicity.
Matching(st, q) ==
    LET docs == {d \in BagToSet(st) : Matches(d, q)}
    IN  [d \in docs |-> CopiesIn(d, st)]

\* Log.countDocuments(query)
CountDocuments(st, q) == BagCardinality(Matching(st, q))

\* .sort({ timestamp: -1 }): every order of the bag's documents that is
\* descending in timestamp; documents with equal timestamps come in any order.
RECURSIVE SortDesc(_)
SortDesc(bag) ==
    IF BagToSet(bag) = {} THEN {<<>>}
    ELSE LET top == {d \in BagToSet(bag) :
                        \A e \in BagToSet(bag) : LexLeq(e.timestamp, d.timestamp)}
         IN  UNION {{<<d>> \o rest : rest \in SortDesc(bag (-) SetToBag({d}))} :
                        d \in top}

\* cursor.skip(n)
Skip(docs, n) == SubSeq(docs, n + 1, Len(docs))

\* cursor.limit(n): the store reads a limit of 0 as no limit.
Limit(docs, n) == IF n = 0 THEN docs ELSE SubSeq(docs, 1, Min(n, Len(docs)))

\* index.ts:113-114
pageLimitOf(req) == IF Truthy(req.limit) THEN ParseInt(req.limit.chars) ELSE 50000
pageSkipOf(req) == IF Truthy(req.skip) THEN ParseInt(req.skip.chars) ELSE 0

\* index.ts:118-122: Log.find(query).sort(...).skip(pageSkip).limit(pageLimit)
Find(st, req) ==
    {Limit(Skip(sorted, pageSkipOf(req)), pageLimitOf(req)) :
        sorted \in SortDesc(Matching(st, Query(req)))}

\* HasMore with >= for >.
HasMoreInclusive(total, pageSkip, logs) == total >= pageSkip + Len(logs)

\* index.ts:125
HasMore(total, pageSkip, logs) == total > pageSkip + Len(logs)

\* index.ts:90-110: the request arrives; the handler builds the filter and
\* asks the store for the count.
QueryStart(req) ==
    /\ queryPc = "idle"
    /\ queryReq' = req
    /\ heldDeleteStatus' = IF deletePc = "done" THEN deleteRes.status ELSE 0
    /\ queryPc' = "count"
    /\ UNCHANGED <<totalCount, countedAt, queryRes>>
    /\ UNCHANGED <<projects, store, storeCalls, writes, bulkVars, deleteVars>>

\* index.ts:110-122: the store answers the count, on the collection as it
\* is at that moment; the handler asks for the page.
QueryCount ==
    /\ queryPc = "count"
    /\ totalCount' = CountDocuments(store, Query(queryReq))
    /\ countedAt' = writes
    /\ queryPc' = "find"
    /\ UNCHANGED <<queryReq, heldDeleteStatus, queryRes>>
    /\ UNCHANGED <<projects, store, storeCalls, writes, bulkVars, deleteVars>>

\* index.ts:118-125: the store answers the find, on the collection as it is
\* at that moment; the handler responds.
QueryFind ==
    /\ queryPc = "find"
    /\ \E logs \in Find(store, queryReq) :
           queryRes' = [status |-> 200,
                        logs |-> logs,
                        total |-> totalCount,
                        hasMore |-> HasMore(totalCount, pageSkipOf(queryReq), logs)]
    /\ queryPc' = "done"
    /\ UNCHANGED <<queryReq, heldDeleteStatus, totalCount, countedAt>>
    /\ UNCHANGED <<projects, store, storeCalls, writes, bulkVars, deleteVars>>

\* index.ts:126-129: the store fails the count or the find; the handler's
\* catch answers 500.
QueryFail ==
    /\ queryPc \in {"count", "find"}
    /\ queryRes' = [status |-> 500]
    /\ queryPc' = "done"
    /\ UNCHANGED <<queryReq, heldDeleteStatus, totalCount, countedAt>>
    /\ UNCHANGED <<projects, store, storeCalls, writes, bulkVars, deleteVars>>

----------------------------------------------------------------------------
(* DELETE /api/projects/:id, index.ts:69-86 *)

\* A promise of one of the two store operations of the cascade: not issued,
\* pending, fulfilled or rejected.  deletedCount is the store's answer to
\* deleteMany and at is the value of writes once the operation has
\* executed.
Unissued == [state |-> "unissued", deletedCount |-> 0, at |-> 0]
Pending == [state |-> "pending", deletedCount |-> 0, at |-> 0]
Rejected == [state |-> "rejected", deletedCount |-> 0, at |-> 0]
Fulfilled(n, w) == [state |-> "fulfilled", deletedCount |-> n, at |-> w]

\* The documents of project pid in the collection st.
OfProject(st, pid) ==
    LET S == {d \in BagToSet(st) : d.projectId = pid}
    IN  [d \in S |-> CopiesIn(d, st)]

\* deleteOne for deleteMany: one document of the project goes.
DeleteOne(st, pid) ==
    IF BagToSet(OfProject(st, pid)) = {} THEN st
    ELSE st (-) SetToBag({CHOOSE d \in BagToSet(OfProject(st, pid)) : TRUE})

\* deleteMany with an empty filter: every document goes.
DeleteManyAll(st, pid) == st (-) st

\* index.ts:76, Log.deleteMany({ projectId }): the collection without the
\* documents of the project.
DeleteMany(st, pid) == st (-) OfProject(st, pid)

\* Promise.all read as Promise.allSettled: a rejected leg is not noticed.
PromiseAllSettled(l, p) ==
    IF l.state \in {"fulfilled", "rejected"} /\ p.state \in {"fulfilled", "rejected"}
    THEN "fulfilled" ELSE "pending"

\* Promise.all fulfilled by the first fulfilled leg, without the other.
PromiseAny(l, p) ==
    IF l.state = "rejected" \/ p.state = "rejected" THEN "rejected"
    ELSE IF l.state = "fulfilled" \/ p.state = "fulfilled" THEN "fulfilled"
    ELSE "pending"

\* index.ts:75-78, Promise.all of the two legs: rejected as soon as one leg
\* is rejected, fulfilled once both are fulfilled.
PromiseAll(l, p) ==
    IF l.state = "rejected" \/ p.state = "rejected" THEN "rejected"
    ELSE IF l.state = "fulfilled" /\ p.state = "fulfilled" THEN "fulfilled"
    ELSE "pending"

\* index.ts:69-78: the request arrives; the handler issues both store
\* operations at once and awaits Promise.all of them.
DeleteStart(projectId) ==
    /\ deletePc = "idle"
    /\ deleteReq' = projectId
    /\ logLeg' = Pending
    /\ projectLeg' = Pending
    /\ deletePc' = "await"
    /\ UNCHANGED deleteRes
    /\ UNCHANGED <<projects, store, storeCalls, writes, bulkVars, queryVars>>

\* index.ts:76: the store executes the deleteMany, on the collection as it
\* is at that moment, or fails it.  The operation is with the store from
\* the moment it is issued, whatever the handler does meanwhile.
DeleteLogs ==
    /\ logLeg.state = "pending"
    /\ \/ /\ store' = DeleteMany(store, deleteReq)
          /\ writes' = IF store' = store THEN writes ELSE writes + 1
          /\ logLeg' = Fulfilled(BagCardinality(store) - BagCardinality(store'),
                                 writes')
       \/ /\ logLeg' = Rejected
          /\ UNCHANGED <<store, writes>>
    /\ UNCHANGED <<deletePc, deleteReq, projectLeg, deleteRes>>
    /\ UNCHANGED <<projects, storeCalls, bulkVars, queryVars>>

\* index.ts:77: the store executes the findByIdAndDelete (the answer is
\* null when there is no such project), or fails it.
DeleteProject ==
    /\ projectLeg.state = "pending"
    /\ \/ /\ projects' = projects \ {deleteReq}
          /\ projectLeg' = Fulfilled(0, writes)
       \/ /\ projectLeg' = Rejected
          /\ UNCHANGED projects
    /\ UNCHANGED <<deletePc, deleteReq, logLeg, deleteRes>>
    /\ UNCHANGED <<store, storeCalls, writes, bulkVars, queryVars>>

\* index.ts:78-85: Promise.all has settled; the handler answers success with
\* the count deleteMany reported, or its catch answers 500.
DeleteResume ==
    /\ deletePc = "await"
    /\ PromiseAll(logLeg, projectLeg) # "pending"
    /\ deleteRes' = IF PromiseAll(logLeg, projectLeg) = "fulfilled"
                    THEN [status |-> 200, success |-> TRUE,
                          logsDeleted |-> logLeg.deletedCount]
                    ELSE [status |-> 500, success |-> FALSE, logsDeleted |-> 0]
    /\ deletePc' = "done"
    /\ UNCHANGED <<deleteReq, logLeg, projectLeg>>
    /\ UNCHANGED <<projects, store, storeCalls, writes, bulkVars, queryVars>>

----------------------------------------------------------------------------
(* Requests and initial state *)

\* The arrays of the small requests: the first n entries of the pool.
MaxLogs == 2
Prefix(n) == SubSeq(EntryPool, 1, Min(n, Len(EntryPool)))

\* Bulk requests that interleave with queries: a logs field that is
\* missing, not an array, empty, or a short array.
SmallBodies ==
    [projectId : {P1}, logs : {Undefined, Str(<<"x">>), Arr(<<>>)}]
    \cup [projectId : ProjectIds \cup {Absent},
          logs : {Arr(Prefix(n)) : n \in 1..MaxLogs}]

\* Bulk requests with large payloads.
LargeBodies ==
    [projectId : {P1, Absent},
     logs : {Undefined, Str(<<"x">>), Arr(<<>>)}
            \cup {Large(n) : n \in BulkSizes}]

\* Query requests.
MaxLimit == 1
MaxSkip == 1

QueryRequests ==
    [projectId : ProjectIds,
     level : {Undefined, Str(<<"E", ",", "W">>), Str(<<"I">>)},
     start : {Undefined, Str(<<2>>)},
     end : {Str(<<>>), Str(<<1, 0>>), Str(<<2>>)},
     search : {Undefined, Str(<<"b">>)},
     limit : {Undefined} \cup {Str(<<n>>) : n \in 0..MaxLimit},
     skip : {Undefined} \cup {Str(<<n>>) : n \in 0..MaxSkip}]

\* The collection holds documents of two projects when the server starts.
InitStore ==
    SetToBag({Stamp(EntryA, P1), Stamp(EntryC, P1), Stamp(EntryB, P2)})

Init ==
    /\ projects = {P1}
    /\ store = InitStore
    /\ storeCalls = <<>>
    /\ writes = 0
    /\ bulkPc = "idle"
    /\ bulkBody = NONE
    /\ i = 0
    /\ parallelPromises = <<>>
    /\ insertedCount = 0
    /\ bulkRes = NONE
    /\ queryPc = "idle"
    /\ queryReq = NONE
    /\ heldDeleteStatus = 0
    /\ totalCount = 0
    /\ countedAt = 0
    /\ queryRes = NONE
    /\ deletePc = "idle"
    /\ deleteReq = Absent
    /\ logLeg = Unissued
    /\ projectLeg = Unissued
    /\ deleteRes = NONE

NextBulk ==
    \/ \E body \in LargeBodies : BulkStart(body)
    \/ \E k \in 1..PARALLEL_BATCHES : BatchSettle(k)
    \/ BulkResume

SpecBulk == Init /\ [][NextBulk]_vars

\* What a step of BatchSettle(k) does to the wave's promises: promise k goes
\* from pending to settled with the batch's length or 0 as its value.
PromiseSettles(k) ==
    /\ bulkPc = "await"
    /\ k \in 1..Len(parallelPromises)
    /\ parallelPromises[k].state = "pending"
    /\ \E state \in {"fulfilled", "rejected"},
          value \in {0, storeCalls[parallelPromises[k].call].size} :
           parallelPromises' = [parallelPromises EXCEPT ![k].state = state,
                                                        ![k].value = value]

\* The bulk handler where the store settles every insertMany it was handed
\* (PromiseSettles(k) is enabled exactly when BatchSettle(k) is, and its
\* steps are the steps of BatchSettle(k)) and the event loop runs the
\* handler's continuation once Promise.all has settled.  When a request
\* arrives is left to the client.
SpecBulkFair ==
    /\ SpecBulk
    /\ \A k \in 1..PARALLEL_BATCHES : WF_parallelPromises(PromiseSettles(k))
    /\ WF_bulkVars(BulkResume)

Next ==
    \/ \E body \in SmallBodies : BulkStart(body)
    \/ \E k \in 1..PARALLEL_BATCHES : BatchSettle(k)
    \/ BulkResume
    \/ \E req \in QueryRequests : QueryStart(req)
    \/ QueryCount
    \/ QueryFind
    \/ QueryFail

Spec == Init /\ [][Next]_vars

\* Requests of the query handler without filters: the page parameters only.
PageRequests ==
    [projectId : ProjectIds, level : {Undefined}, start : {Undefined},
     end : {Undefined}, search : {Undefined},
     limit : {Undefined} \cup {Str(<<n>>) : n \in 0..MaxLimit},
     skip : {Undefined} \cup {Str(<<n>>) : n \in 0..MaxSkip}]

\* The three handlers together on the shared store.
NextDelete ==
    \/ \E body \in SmallBodies : BulkStart(body)
    \/ \E k \in 1..PARALLEL_BATCHES : BatchSettle(k)
    \/ BulkResume
    \/ \E req \in PageRequests : QueryStart(req)
    \/ QueryCount
    \/ QueryFind
    \/ QueryFail
    \/ \E projectId \in ProjectIds : DeleteStart(projectId)
    \/ DeleteLogs
    \/ DeleteProject
    \/ DeleteResume

SpecDelete == Init /\ [][NextDelete]_vars

----------------------------------------------------------------------------
(* Properties of the bulk ingestion handler *)

\* The request the bulk handler is serving, seen from outside.
BulkAccepted == bulkPc # "idle" /\ bulkBody.logs.type = "array"
                                /\ Len(Items(bulkBody.logs)) >= 1
BulkN == Len(Items(bulkBody.logs))
BulkDone == bulkPc = "done"

Calls == 1..Len(storeCalls)
CallsWith(outcome) == {k \in Calls : storeCalls[k].outcome = outcome}

\* The sum of the sizes of the calls in a set.
RECURSIVE SizeSum(_)
SizeSum(ks) ==
    IF ks = {} THEN 0
    ELSE LET k == CHOOSE x \in ks : TRUE
         IN  storeCalls[k].size + SizeSum(ks \ {k})

\* C1: when every batch write of a request either succeeds or fails
\* outright, the reported count is N minus the sizes of the failed batches
\* (N when none fails).
C1_CountIsNMinusFailed ==
    (BulkDone /\ BulkAccepted /\ Calls = CallsWith("ok") \cup CallsWith("fail"))
        => /\ bulkRes.status = 201
           /\ bulkRes.count = BulkN - SizeSum(CallsWith("fail"))

\* 12000 records, the second of the three batches fails: 7000 reported.
C1_Witness ==
    /\ BulkDone /\ BulkAccepted /\ BulkN = 12000
    /\ CallsWith("fail") = {2} /\ CallsWith("ok") = {1, 3}
    /\ bulkRes.count = 7000

\* C2: a request of N records is written in ceil(N/B) batches, each of B
\* entries except the last, which has N mod B entries (B when B divides N).
C2_BatchCountAndSizes ==
    (BulkDone /\ BulkAccepted)
        => /\ (Len(storeCalls) - 1) * 5000 < BulkN
           /\ BulkN <= Len(storeCalls) * 5000
           /\ \A k \in Calls :
                  storeCalls[k].size =
                      IF k < Len(storeCalls) THEN 5000
                      ELSE IF BulkN % 5000 = 0 THEN 5000 ELSE BulkN % 5000

\* 12000 records went out as batches of 5000, 5000 and 2000.
C2_Witness ==
    /\ BulkDone /\ BulkAccepted /\ BulkN = 12000
    /\ Len(storeCalls) = 3
    /\ storeCalls[1].size = 5000 /\ storeCalls[2].size = 5000
    /\ storeCalls[3].size = 2000

\* The number of documents the store wrote for the calls in a set.
RECURSIVE InsertedSum(_)
InsertedSum(ks) ==
    IF ks = {} THEN 0
    ELSE LET k == CHOOSE x \in ks : TRUE
         IN  storeCalls[k].nInserted + InsertedSum(ks \ {k})

\* C3: the count a request reports is the number of records the request
\* persisted: nothing for a batch that failed outright, and for a batch
\* that partially failed the number of records the store wrote.
C3_CountIsPersisted ==
    (BulkDone /\ BulkAccepted /\ bulkRes.status = 201)
        => bulkRes.count = InsertedSum(Calls)

\* C4: at most 4 batch writes of a request are dispatched and unsettled.
C4_InFlightAtMostCeiling == Cardinality(CallsWith("pending")) <= 4

\* Four writes in flight while a fifth batch is still to come.
C4_Witness ==
    /\ BulkAccepted /\ BulkN = 20001
    /\ Cardinality(CallsWith("pending")) = 4

\* The wave of a call: batches 4k+1 .. 4k+4 make wave k.
WaveOf(k) == (storeCalls[k].startIdx \div 5000) \div 4

\* C5: no batch of a later wave is dispatched while a batch of an earlier
\* wave is unsettled.
C5_WaveBarrier ==
    \A a \in Calls, b \in Calls :
        WaveOf(a) < WaveOf(b) => storeCalls[a].outcome # "pending"

\* The fifth batch is in flight after a first wave in which a batch failed.
C5_Witness ==
    /\ Len(storeCalls) = 5 /\ WaveOf(5) = 1
    /\ storeCalls[5].outcome = "pending"
    /\ storeCalls[2].outcome = "fail"
    /\ \A k \in 1..4 : WaveOf(k) = 0

\* C6: whatever the batches' outcomes, no batch is submitted twice, every
\* batch of the partition is submitted, and the request answers 201 with a
\* count.
C6_FailureIsolation ==
    /\ \A a \in Calls, b \in Calls :
           a # b => storeCalls[a].startIdx # storeCalls[b].startIdx
    /\ (BulkDone /\ BulkAccepted)
           => /\ bulkRes.status = 201
              /\ {storeCalls[k].startIdx : k \in Calls} =
                     {m * 5000 : m \in {x \in 0..(BulkN \div 5000) : x * 5000 < BulkN}}
              /\ bulkRes.count \in 0..BulkN

\* Five batches, every one of them failed, and the request answered 201.
C6_Witness ==
    /\ BulkDone /\ BulkAccepted /\ BulkN = 20001
    /\ CallsWith("fail") = 1..5
    /\ bulkRes.status = 201 /\ bulkRes.count = 0

\* C7: a request whose logs field is missing, not an array or an empty
\* array is answered 400, no write reaches the store and the collection is
\* unchanged.
C7_RejectedBeforeStore ==
    (BulkDone /\ (\/ bulkBody.logs.type # "array"
                  \/ Len(Items(bulkBody.logs)) = 0))
        => /\ bulkRes.status = 400
           /\ storeCalls = <<>>
           /\ store = InitStore

\* An empty array was rejected.
C7_Witness ==
    /\ BulkDone /\ bulkBody.logs = Arr(<<>>)
    /\ bulkRes.status = 400 /\ storeCalls = <<>>

----------------------------------------------------------------------------
(* Properties of the query handler *)

\* A parameter counts as given when it is a non-empty string.
Given(param) == param.type = "string" /\ Len(param.chars) > 0
QueryAnswered == queryPc = "done" /\ queryRes.status = 200

\* The skip and the limit of the request: the number given, else 0 and 50000.
SkipGiven == IF Given(queryReq.skip) THEN ParseInt(queryReq.skip.chars) ELSE 0
LimitGiven == IF Given(queryReq.limit) THEN ParseInt(queryReq.limit.chars)
              ELSE 50000

\* The step in which the store answers the find and the handler responds.
QueryResponds == queryPc = "find" /\ queryPc' = "done" /\ queryRes'.status = 200

\* C8: in every response hasMore is true exactly when total exceeds skip
\* plus the number of records returned, whatever a concurrent bulk request
\* writes meanwhile; and a query that matches no record at its count and at
\* its find answers total 0, no records and hasMore false.
C8_HasMoreIffBeyond ==
    [][QueryResponds =>
         /\ queryRes'.hasMore =
                (queryRes'.total > SkipGiven + Len(queryRes'.logs))
         /\ (/\ totalCount = 0
             /\ \A d \in BagToSet(store) : ~Matches(d, Query(queryReq)))
                => /\ queryRes'.total = 0
                   /\ queryRes'.logs = <<>>
                   /\ queryRes'.hasMore = FALSE]_vars

\* A page of one record out of two, after skipping none: more remain.
C8_Witness ==
    /\ QueryAnswered
    /\ queryRes.total = 2 /\ Len(queryRes.logs) = 1 /\ SkipGiven = 0
    /\ queryRes.hasMore = TRUE

\* C9: every record returned belongs to the project of the request, has a
\* level of the comma-separated list when one is given, and a timestamp
\* within the bounds given, both inclusive.
C9_ReturnedMatchFilter ==
    QueryAnswered =>
        \A k \in 1..Len(queryRes.logs) :
            LET d == queryRes.logs[k]
            IN  /\ d.projectId = queryReq.projectId
                /\ Given(queryReq.level) =>
                       \E j \in 1..Len(Split(queryReq.level.chars)) :
                           Split(queryReq.level.chars)[j] = d.level
                /\ Given(queryReq.start) => LexLeq(queryReq.start.chars, d.timestamp)
                /\ Given(queryReq.end) => LexLeq(d.timestamp, queryReq.end.chars)

\* A record of level E with timestamp 2 returned for level=E,W and the
\* window from 2 to 2.
C9_Witness ==
    /\ QueryAnswered
    /\ queryReq.level = Str(<<"E", ",", "W">>)
    /\ queryReq.start = Str(<<2>>) /\ queryReq.end = Str(<<2>>)
    /\ Len(queryRes.logs) >= 1
    /\ queryRes.logs[1].timestamp = <<2>>

\* C10: for every limit, 0 included, and every skip the response holds at
\* most limit records, and they are the matching records in descending
\* order of timestamp without the first skip of them; limit is 50000 and
\* skip 0 when absent.
C10_AtMostLimitAfterSkip ==
    [][QueryResponds =>
         /\ Len(queryRes'.logs) <= LimitGiven
         /\ \E sorted \in SortDesc(Matching(store, Query(queryReq))) :
                queryRes'.logs =
                    SubSeq(sorted, SkipGiven + 1,
                           Min(SkipGiven + LimitGiven, Len(sorted)))]_vars

----------------------------------------------------------------------------
(* Properties of the cascading delete *)

\* The delete handler has answered success.
DeleteSucceeded == deletePc = "done" /\ deleteRes.status = 200
\* The steps of the cascade: the store executes the deleteMany, the handler
\* responds.
LogsDeleted == logLeg.state = "pending" /\ logLeg'.state = "fulfilled"
DeleteResponds == deletePc = "await" /\ deletePc' = "done"
\* The query was issued by a client that held the success response of the
\* deletion of the project it asks about.
AskedAfterDelete ==
    /\ heldDeleteStatus = 200
    /\ queryReq.projectId = deleteReq
\* How many documents of project pid the collection holds.
Owned(pid) == BagCardinality(OfProject(store, pid))

\* C11 as stated: deleting a project that owns K records answers success
\* with logsDeleted = K, K being what the project owns when the store
\* executes the deletion, and every query for the project issued after the
\* delete response answers total = 0.
C11_DeleteThenQueryEmpty ==
    [][/\ LogsDeleted => logLeg'.deletedCount = Owned(deleteReq)
       /\ (DeleteResponds /\ deleteRes'.status = 200)
             => (deleteRes'.success /\ deleteRes'.logsDeleted = logLeg.deletedCount)
       /\ (QueryResponds /\ AskedAfterDelete) => queryRes'.total = 0]_vars

\* C11, amended: the same, the query answering total = 0 when no write has
\* changed the collection between the deletion of the records and the
\* query's count.
C11_DeleteThenQueryEmptyIfQuiet ==
    [][/\ LogsDeleted => logLeg'.deletedCount = Owned(deleteReq)
       /\ (DeleteResponds /\ deleteRes'.status = 200)
             => (deleteRes'.success /\ deleteRes'.logsDeleted = logLeg.deletedCount)
       /\ (QueryResponds /\ AskedAfterDelete /\ countedAt = logLeg.at)
             => queryRes'.total = 0]_vars

\* A project that owned three records (one of them ingested before the
\* deletion) is deleted, and the query that follows finds none.
C11_Witness ==
    /\ DeleteSucceeded /\ deleteReq = P1 /\ deleteRes.logsDeleted = 3
    /\ QueryAnswered /\ AskedAfterDelete /\ countedAt = logLeg.at
    /\ queryRes.total = 0

\* The bulk handler has answered a request for the project being deleted.
IngestionAnswered ==
    /\ bulkPc = "done"
    /\ deletePc # "idle"
    /\ bulkBody.projectId = deleteReq

\* C12 as stated: once the delete has answered success and the ingestion
\* for the same project has answered, the collection holds no record of the
\* deleted project.
C12_NoRecordOfDeleted ==
    (DeleteSucceeded /\ IngestionAnswered) => Owned(deleteReq) = 0

\* C12, amended: the same, provided no write has changed the collection
\* since the store executed the deletion of the project's records.
C12_NoRecordOfDeletedIfLast ==
    (DeleteSucceeded /\ IngestionAnswered /\ writes = logLeg.at)
        => Owned(deleteReq) = 0

\* An ingestion of two records for p1 is written, then the cascade deletes
\* them with the two p1 held before; both requests have answered.
C12_Witness ==
    /\ DeleteSucceeded /\ IngestionAnswered /\ writes = logLeg.at
    /\ deleteReq = P1 /\ bulkRes.status = 201 /\ bulkRes.count = 2
    /\ logLeg.deletedCount = 4
    /\ Owned(P1) = 0

\* A leg of the cascade has failed.
LegFailed == logLeg.state = "rejected" \/ projectLeg.state = "rejected"

\* C13: when either leg of the cascade fails the delete request answers a
\* server error and not success, and what the other leg did stays done: the
\* answering step changes neither collection, and no step of the cascade
\* puts a project or a record back.
C13_FailedLegIs500NoRollback ==
    [][/\ (deletePc' = "done" /\ LegFailed')
             => (deleteRes'.status = 500 /\ ~deleteRes'.success)
       /\ DeleteResponds => (store' = store /\ projects' = projects)
       /\ deleteVars' # deleteVars
             => /\ projects' \subseteq projects
                /\ \A d \in BagToSet(store') : CopiesIn(d, store') <= CopiesIn(d, store)]_vars

\* The deletion of the project record failed after the two records of p1
\* were deleted: the request answered 500, the records are gone and the
\* project is still there.
C13_Witness ==
    /\ deletePc = "done" /\ deleteRes.status = 500 /\ deleteReq = P1
    /\ projectLeg.state = "rejected"
    /\ logLeg.state = "fulfilled" /\ logLeg.deletedCount = 2
    /\ Owned(P1) = 0 /\ P1 \in projects

\* C17 as stated: the project record is deleted only once the deletion of
\* its log records has completed, so a cascade never leaves the project
\* deleted with the deletion of its records not done.
C17_LogsBeforeProject ==
    projectLeg.state = "fulfilled" => logLeg.state = "fulfilled"

\* C17, amended: the two deletions are issued together and complete in
\* either order; the request answers success only once both have
\* completed.
C17_BothIssuedSuccessAfterBoth ==
    /\ logLeg.state = "unissued" <=> deletePc = "idle"
    /\ projectLeg.state = "unissued" <=> deletePc = "idle"
    /\ DeleteSucceeded
          => (logLeg.state = "fulfilled" /\ projectLeg.state = "fulfilled")

\* The deletion of the records failed and the project record was deleted:
\* the request answered 500, p1 is gone and its two records are still there.
C17_Witness ==
    /\ deletePc = "done" /\ deleteRes.status = 500 /\ deleteReq = P1
    /\ logLeg.state = "rejected" /\ projectLeg.state = "fulfilled"
    /\ P1 \notin projects /\ Owned(P1) = 2

----------------------------------------------------------------------------
(* Properties of the records *)

\* C14: every record in the collection has a projectId, and a record is
\* inserted only under the projectId of a project that exists at that
\* moment, so that an ingestion whose projectId is missing or names no
\* project persists nothing.
C14_ProjectExistsAtInsertion ==
    [][\A d \in BagToSet(store') :
          /\ d.projectId # Absent
          /\ CopiesIn(d, store') > CopiesIn(d, store) => d.projectId \in projects]_vars

\* C15: a step of the query handler leaves the collection as it is; a step
\* of the bulk handler or of a batch write only adds documents; a document
\* leaves the collection only in the step that deletes the records of its
\* own project, and that step adds nothing.  A document is therefore never
\* changed, and the deletion of one project leaves the records of the
\* others as they are.
C15_RecordLifecycle ==
    [][/\ queryVars' # queryVars => store' = store
       /\ (bulkVars' # bulkVars \/ storeCalls' # storeCalls)
             => \A d \in BagToSet(store) : CopiesIn(d, store') >= CopiesIn(d, store)
       /\ \A d \in BagToSet(store) :
              CopiesIn(d, store') < CopiesIn(d, store)
                  => (LogsDeleted /\ d.projectId = deleteReq)
       /\ LogsDeleted
             => \A d \in BagToSet(store') : CopiesIn(d, store') <= CopiesIn(d, store)]_vars

\* p1 has been deleted with its two records while an ingestion added a
\* record to p2 and a query was answered: the records of p2 are all there.
C15_Witness ==
    /\ DeleteSucceeded /\ deleteReq = P1 /\ logLeg.deletedCount = 2
    /\ bulkPc = "done" /\ bulkRes.status = 201 /\ bulkBody.projectId = P2
    /\ QueryAnswered
    /\ Owned(P1) = 0 /\ Owned(P2) = 2

----------------------------------------------------------------------------
(* Properties of stamping and batching *)

\* The step in which the bulk handler hands batches to the store, and the
\* positions in storeCalls of the calls it makes.
Dispatches == Len(storeCalls') > Len(storeCalls)
Dispatched == (Len(storeCalls) + 1)..Len(storeCalls')

\* C16: every entry of every batch handed to the store (the batch of a call
\* is the size entries of logsToInsert from startIdx on, index.ts:162)
\* carries the request's projectId, whatever projectId the entry itself
\* carried, and has every other field of the entry as it was sent; the
\* documents a batch write adds to the collection carry the request's
\* projectId.
C16_StampedWithRequestProject ==
    [][/\ Dispatches =>
             \A c \in Dispatched :
                \A p \in 1..storeCalls'[c].size :
                   LET entry == LogsToInsert(bulkBody')[storeCalls'[c].startIdx + p]
                       sent == Items(bulkBody'.logs)[storeCalls'[c].startIdx + p]
                   IN  /\ entry.projectId = bulkBody'.projectId
                       /\ DOMAIN entry = DOMAIN sent \cup {"projectId"}
                       /\ \A f \in DOMAIN sent \ {"projectId"} : entry[f] = sent[f]
       /\ \A d \in BagToSet(store') :
              CopiesIn(d, store') > CopiesIn(d, store)
                  => d.projectId = bulkBody.projectId]_vars

\* The entry that arrived with projectId p2 in a request for p1 is in the
\* collection under p1, its other fields as sent.
C16_Witness ==
    /\ BulkDone /\ bulkRes.status = 201 /\ bulkBody.projectId = P1
    /\ EntryD.projectId = P2
    /\ \E d \in BagToSet(store) :
           /\ d.projectId = P1
           /\ \A f \in DOMAIN EntryD \ {"projectId"} : d[f] = EntryD[f]

\* C18: when every batch write handed to the store settles, an accepted
\* bulk request is answered, and an answer once sent is the only one; and
\* as long as a batch write has not settled the request is not answered and
\* no further batch is handed to the store.
C18_AnsweredOnceIfWritesSettle ==
    /\ BulkAccepted ~> BulkDone
    /\ [][BulkDone => (BulkDone' /\ bulkRes' = bulkRes)]_vars
    /\ [](CallsWith("pending") # {} => ~BulkDone)
    /\ [][Dispatches => CallsWith("pending") = {}]_vars

\* A request of 20001 entries whose second batch failed has gone through
\* both waves and has been answered.
C18_Witness ==
    /\ BulkAccepted /\ BulkDone /\ bulkRes.status = 201
    /\ Len(storeCalls) = 5 /\ CallsWith("pending") = {}
    /\ storeCalls[2].outcome = "fail"
    /\ bulkRes.count = 15001

\* C19: the k-th batch handed to the store is the slice of the stamped
\* input at positions (k-1)*B .. min(k*B, N)-1 (0-based), entry for entry;
\* the batches are handed over in that order; when the request is answered
\* the slices reach the end of the input; and when every batch was written
\* the collection has gained exactly the input, each entry once.
C19_OrderedPartition ==
    [][/\ Dispatches =>
             \A c \in Dispatched :
                LET first == (c - 1) * BATCH_SIZE
                    last == Min(c * BATCH_SIZE, Len(LogsToInsert(bulkBody')))
                IN  /\ storeCalls'[c].startIdx = first
                    /\ storeCalls'[c].size = last - first
                    /\ Batch(LogsToInsert(bulkBody'), storeCalls'[c].startIdx)
                          = [p \in 1..(last - first) |->
                                LogsToInsert(bulkBody')[first + p]]
       /\ (~BulkDone /\ BulkDone' /\ BulkAccepted')
             => storeCalls'[Len(storeCalls')].startIdx + storeCalls'[Len(storeCalls')].size
                    = Len(Items(bulkBody'.logs))
       /\ (~BulkDone /\ BulkDone' /\ BulkAccepted'
              /\ \A c \in 1..Len(storeCalls') : storeCalls'[c].outcome = "ok")
             => store' = InitStore (+)
                    DocsAt(LogsToInsert(bulkBody'), 1..Len(Items(bulkBody'.logs)))]_vars

\* 12000 entries went to the store as three batches starting at 0, 5000 and
\* 10000, of 5000, 5000 and 2000 entries, all written.
C19_Witness ==
    /\ BulkAccepted /\ BulkDone /\ BulkN = 12000
    /\ Len(storeCalls) = 3 /\ CallsWith("ok") = {1, 2, 3}
    /\ storeCalls[3].startIdx = 10000 /\ storeCalls[3].size = 2000
    /\ BagCardinality(store) = BagCardinality(InitStore) + 12000

----------------------------------------------------------------------------
(* Properties of the query handler under concurrent writes *)

\* No write has changed the collection since the store answered the count.
QuietSinceCount == countedAt = writes

\* C20: when no write changes the collection between a query's count and
\* its find, the number of records returned is min(limit, max(0, total -
\* skip)) and hasMore is true exactly when records matching the filter
\* exist beyond the returned window.
C20_WindowWhenQuiet ==
    [][(QueryResponds /\ QuietSinceCount)
          => /\ Len(queryRes'.logs)
                   = Min(LimitGiven, IF totalCount > SkipGiven
                                     THEN totalCount - SkipGiven ELSE 0)
             /\ queryRes'.hasMore
                   <=> (CountDocuments(store, Query(queryReq))
                          > SkipGiven + Len(queryRes'.logs))]_vars

====
